---- MODULE Spec2Model ----
(***************************************************************************)
(* Model of src/index.js: an Express server over two Mongoose collections  *)
(* (visitors, comments) with JWT bearer authentication.                    *)
(*                                                                         *)
(* Every request handler is an async function.  Node runs the code between *)
(* two awaits without interruption, and every awaited call is one atomic   *)
(* operation of the document store, so a handler is cut into one step per  *)
(* store operation: the step holds the store operation and the synchronous *)
(* code that follows it up to the next store call (or the response).       *)
(* Steps of different requests interleave freely.                          *)
(*                                                                         *)
(* The store is taken to be reachable: a store call rejects only for a     *)
(* reason its arguments decide (duplicate key on the unique email index,   *)
(* a path id that does not cast to an ObjectId).                           *)
(*                                                                         *)
(* A document's _id is its index in the collection.  A comment's createdAt *)
(* is the arrival number of the request that built it; a visitor's         *)
(* lastCommentAt is modelled by whether it has been set, and its createdAt,*)
(* which no handler reads or changes, is left out.                         *)
(***************************************************************************)
EXTENDS Integers, Sequences, FiniteSets

\* Bounds of the model: the requests a run receives (MaxLong in the longer
\* runs of SpecLong) and the requests that may be in flight at once.
MaxRequests == 3
MaxLong == 4
MaxInFlight == 2

\* Values a request may carry.  "" is a missing (falsy) body field.
Emails == {"a@x.com", "b@x.com"}
Names == {"Ann", "Bob"}
Messages == {"hi"}
\* A path id that is no ObjectId (Mongoose cannot cast it).
MalformedId == -1
\* limit(20) of the public list.
PageSize == 20

VARIABLES
    visitors,   \* the visitors collection
    comments,   \* the comments collection
    tokens,     \* the tokens jwt.sign has issued
    reqs,       \* the requests in flight, oldest first: what each handler
                \* holds between two awaits
    started,    \* requests received so far
    last,       \* the response sent last
    cap         \* requests the run receives; never changes

vars == <<visitors, comments, tokens, reqs, started, last, cap>>

----------------------------------------------------------------------------
\* Sequence helpers.

\* s without its i-th element.
Remove(s, i) == SubSeq(s, 1, i - 1) \o SubSeq(s, i + 1, Len(s))

RECURSIVE InsertDesc(_, _)
InsertDesc(s, c) ==
    IF s = <<>> THEN <<c>>
    ELSE IF c.createdAt > Head(s).createdAt THEN <<c>> \o s
    ELSE <<Head(s)>> \o InsertDesc(Tail(s), c)

\* sort({ createdAt: -1 }): newest first, stable.
RECURSIVE SortByCreatedAtDesc(_)
SortByCreatedAtDesc(s) ==
    IF s = <<>> THEN <<>>
    ELSE InsertDesc(SortByCreatedAtDesc(Tail(s)), Head(s))

Limit(s, n) == IF Len(s) <= n THEN s ELSE SubSeq(s, 1, n)

----------------------------------------------------------------------------
\* Documents.

NoVisitor == [id |-> 0, name |-> "", email |-> "", commentCount |-> 0, isAdmin |-> FALSE]
NoToken == [visitorId |-> 0, email |-> "", name |-> "", commentCount |-> 0,
            isAdmin |-> FALSE, ok |-> FALSE]

\* new Visitor({ name, email }) with the schema defaults.
newVisitor(name, email) ==
    [name |-> name, email |-> email, commentCount |-> 0, lastCommentAt |-> FALSE,
     isAdmin |-> FALSE]

\* Visitor.findOne({ email }): the _id of the first match, 0 for null.
findOne(vs, email) ==
    IF \E i \in 1..Len(vs) : vs[i].email = email
    THEN CHOOSE i \in 1..Len(vs) :
             /\ vs[i].email = email
             /\ \A j \in 1..(i - 1) : vs[j].email # email
    ELSE 0

\* Visitor.findById(id): the _id if the document exists, 0 for null.
findById(vs, id) == IF id \in 1..Len(vs) THEN id ELSE 0

\* insertVisitor with a fault: the email path has no unique index.
insertVisitorNoIndex(vs, doc) == [err |-> FALSE, vs |-> Append(vs, doc)]

\* visitor.save() of a new document: the unique index on email rejects a
\* second document with the same email (duplicate key error).
insertVisitor(vs, doc) ==
    IF \E i \in 1..Len(vs) : vs[i].email = doc.email
    THEN [err |-> TRUE, vs |-> vs]
    ELSE [err |-> FALSE, vs |-> Append(vs, doc)]

\* jwt.sign of the five claims; ok says the token passes jwt.verify.
jwtSign(id, visitor) ==
    [visitorId |-> id, email |-> visitor.email, name |-> visitor.name,
     commentCount |-> visitor.commentCount, isAdmin |-> visitor.isAdmin, ok |-> TRUE]

\* The visitor summary of the login and profile responses.
visitorSummary(id, visitor) ==
    [id |-> id, name |-> visitor.name, email |-> visitor.email,
     commentCount |-> visitor.commentCount, isAdmin |-> visitor.isAdmin]

----------------------------------------------------------------------------
\* Requests and responses.

\* A request in flight; rid is the arrival number of a submission, which
\* becomes its comment's createdAt.
Request ==
    [op |-> "none", pc |-> "none", rid |-> 0, email |-> "", name |-> "", message |-> "",
     id |-> 0, vid |-> 0, newCommentCount |-> 0, cid |-> 0,
     auth |-> "none", pre |-> 0, claimAdmin |-> FALSE, adminAtCheck |-> FALSE]

\* What a finished request sent: status and message, the parts of the body the
\* properties read, and what the request was (auth: how its credential fared;
\* ran: the route handler was entered; sent: responses written).
Response(op, status, message) ==
    [op |-> op, status |-> status, message |-> message, error |-> "",
     auth |-> "none", ran |-> TRUE, sent |-> 1,
     token |-> NoToken, visitor |-> NoVisitor, comments |-> <<>>, commentNumber |-> 0,
     email |-> "", name |-> "", found |-> FALSE, id |-> 0, vid |-> 0,
     claimAdmin |-> FALSE, adminAtCheck |-> FALSE]

\* The server takes another request into flight.
Room == Len(reqs) < MaxInFlight

Empty ==
    /\ visitors = <<>>
    /\ comments = <<>>
    /\ tokens = {}
    /\ reqs = <<>>
    /\ started = 0
    /\ last = Response("none", 0, "")

Init == Empty /\ cap = MaxRequests

InitLong == Empty /\ cap = MaxLong

----------------------------------------------------------------------------
\* POST /api/visitor/login

\* foundVisitor with a fault: the handler puts the request's name on the document
\* it signs and reports.
foundVisitorRenamed(vs, vid, name) ==
    IF name = "" THEN vs[vid] ELSE [vs[vid] EXCEPT !.name = name]

\* The visitor document the handler holds once the lookup found one: the
\* stored document; the name of the request body is not used.
foundVisitor(vs, vid, name) == vs[vid]

\* Arrival, validation and Visitor.findOne.
Login(email, name) ==
    /\ started < cap
    /\ started' = started + 1
    /\ UNCHANGED cap
    /\ UNCHANGED <<visitors, comments>>
    /\ IF email = ""
       THEN /\ last' = Response("login", 400, "Email is required")
            /\ UNCHANGED <<tokens, reqs>>
       ELSE LET vid == findOne(visitors, email) IN
            IF vid = 0
            THEN IF name = ""
                 THEN /\ last' = [Response("login", 400, "Name is required for new visitors")
                                     EXCEPT !.email = email]
                      /\ UNCHANGED <<tokens, reqs>>
                 ELSE /\ Room
                      /\ reqs' = Append(reqs,
                                     [Request EXCEPT !.op = "login", !.pc = "save",
                                                  !.email = email, !.name = name])
                      /\ UNCHANGED <<tokens, last>>
            ELSE LET visitor == foundVisitor(visitors, vid, name)
                     token == jwtSign(vid, visitor)
                 IN  /\ tokens' = tokens \cup {token}
                     /\ last' = [Response("login", 200, "Visitor login successful")
                                    EXCEPT !.token = token,
                                           !.visitor = visitorSummary(vid, visitor),
                                           !.email = email, !.name = name,
                                           !.found = TRUE, !.vid = vid]
                     /\ UNCHANGED reqs

\* visitor.save() of the new visitor, then the token and the response; a
\* rejected save is caught and answered 500.
LoginSave(s) ==
    /\ reqs[s].op = "login"
    /\ reqs[s].pc = "save"
    /\ LET r == reqs[s]
           saved == insertVisitor(visitors, newVisitor(r.name, r.email))
           vid == Len(saved.vs)
           token == jwtSign(vid, saved.vs[vid])
       IN  /\ visitors' = saved.vs
           /\ IF saved.err
              THEN /\ last' = [Response("login", 500, "Server error")
                                  EXCEPT !.error = "E11000 duplicate key",
                                         !.email = r.email, !.name = r.name]
                   /\ UNCHANGED tokens
              ELSE /\ tokens' = tokens \cup {token}
                   /\ last' = [Response("login", 200, "Visitor login successful")
                                  EXCEPT !.token = token,
                                         !.visitor = visitorSummary(vid, saved.vs[vid]),
                                         !.email = r.email, !.name = r.name, !.vid = vid]
    /\ reqs' = Remove(reqs, s)
    /\ UNCHANGED <<comments, started, cap>>

----------------------------------------------------------------------------
\* Authentication middleware.

\* The Authorization headers a client can send: none, one without a second
\* word, or "Bearer <token>" with a token this server signed, such a token
\* expired or tampered with, or a forged one.
Forged ==
    [visitorId |-> 1, email |-> "a@x.com", name |-> "Ann", commentCount |-> 0,
     isAdmin |-> TRUE, ok |-> FALSE]
Headers ==
    {<<>>, <<"Bearer">>}
        \cup {<<"Bearer", t>> : t \in tokens}
        \cup {<<"Bearer", [t EXCEPT !.ok = FALSE]>> : t \in tokens}
        \cup {<<"Bearer", Forged>>}

\* authHeader && authHeader.split(" ")[1] is defined.
hasToken(headers) == Len(headers) >= 2

\* jwt.verify(token, secret): TRUE when it yields the claims, FALSE on err.
jwtVerify(token) == token.ok

\* How the credential of a request fares, for the properties.
AuthKind(headers) ==
    IF ~hasToken(headers) THEN "missing"
    ELSE IF headers[2].ok THEN "valid" ELSE "invalid"

\* authenticateToken with a fault: the verify callback answers 403 on err and
\* goes on to next() with the decoded claims.
authenticateTokenNoReturn(headers) ==
    IF ~hasToken(headers)
    THEN [status |-> 401, message |-> "Access token required", next |-> FALSE,
          user |-> NoToken]
    ELSE IF ~jwtVerify(headers[2])
    THEN [status |-> 403, message |-> "Invalid token", next |-> TRUE, user |-> headers[2]]
    ELSE [status |-> 0, message |-> "", next |-> TRUE, user |-> headers[2]]

\* authenticateToken: status 0 with next when the handler is to run, the
\* response otherwise.
authenticateToken(headers) ==
    IF ~hasToken(headers)
    THEN [status |-> 401, message |-> "Access token required", next |-> FALSE,
          user |-> NoToken]
    ELSE IF ~jwtVerify(headers[2])
    THEN [status |-> 403, message |-> "Invalid token", next |-> FALSE, user |-> NoToken]
    ELSE [status |-> 0, message |-> "", next |-> TRUE, user |-> headers[2]]

\* authenticateAdmin with a fault: the role is read from the token's claim.
authenticateAdminByClaim(headers, vs) ==
    IF ~hasToken(headers)
    THEN [status |-> 401, message |-> "Access token required", next |-> FALSE,
          user |-> NoToken]
    ELSE IF ~jwtVerify(headers[2])
    THEN [status |-> 403, message |-> "Invalid token", next |-> FALSE, user |-> NoToken]
    ELSE IF ~headers[2].isAdmin
    THEN [status |-> 403, message |-> "Admin access denied", next |-> FALSE,
          user |-> NoToken]
    ELSE [status |-> 0, message |-> "", next |-> TRUE, user |-> headers[2]]

\* authenticateAdmin: as authenticateToken, then Visitor.findById of the
\* token's visitorId and the stored isAdmin flag.
authenticateAdmin(headers, vs) ==
    IF ~hasToken(headers)
    THEN [status |-> 401, message |-> "Access token required", next |-> FALSE,
          user |-> NoToken]
    ELSE IF ~jwtVerify(headers[2])
    THEN [status |-> 403, message |-> "Invalid token", next |-> FALSE, user |-> NoToken]
    ELSE LET vid == findById(vs, headers[2].visitorId) IN
         IF vid = 0 \/ ~vs[vid].isAdmin
         THEN [status |-> 403, message |-> "Admin access denied", next |-> FALSE,
               user |-> NoToken]
         ELSE [status |-> 0, message |-> "", next |-> TRUE, user |-> headers[2]]

\* The response a middleware sent on its own.
Rejected(op, headers, auth) ==
    [Response(op, auth.status, auth.message)
        EXCEPT !.auth = AuthKind(headers), !.ran = FALSE]

\* The response of a handler that ran behind a middleware.
Handled(headers, auth, resp) ==
    [resp EXCEPT !.auth = AuthKind(headers),
                 !.sent = resp.sent + (IF auth.status # 0 THEN 1 ELSE 0)]

----------------------------------------------------------------------------
\* PUT /api/visitor/profile and GET /api/visitor/profile

\* Visitor.findByIdAndUpdate(id, { name }, { new: true }).
findByIdAndUpdateName(vs, id, name) ==
    IF findById(vs, id) = 0 THEN [found |-> FALSE, vs |-> vs]
    ELSE [found |-> TRUE, vs |-> [vs EXCEPT ![id].name = name]]

UpdateProfile(headers, name) ==
    /\ started < cap
    /\ started' = started + 1
    /\ UNCHANGED cap
    /\ UNCHANGED <<comments, reqs>>
    /\ LET auth == authenticateToken(headers) IN
       IF ~auth.next
       THEN /\ last' = Rejected("updateProfile", headers, auth)
            /\ UNCHANGED <<visitors, tokens>>
       ELSE IF name = ""
       THEN /\ last' = Handled(headers, auth,
                               Response("updateProfile", 400, "Name is required"))
            /\ UNCHANGED <<visitors, tokens>>
       ELSE LET vid == auth.user.visitorId
                upd == findByIdAndUpdateName(visitors, vid, name)
                token == jwtSign(vid, upd.vs[vid])
            IN  IF ~upd.found
                THEN /\ last' = Handled(headers, auth,
                                        Response("updateProfile", 404, "Visitor not found"))
                     /\ UNCHANGED <<visitors, tokens>>
                ELSE /\ visitors' = upd.vs
                     /\ tokens' = tokens \cup {token}
                     /\ last' = Handled(headers, auth,
                            [Response("updateProfile", 200, "Profile updated successfully")
                                EXCEPT !.token = token,
                                       !.visitor = visitorSummary(vid, upd.vs[vid]),
                                       !.name = name, !.vid = vid])

GetProfile(headers) ==
    /\ started < cap
    /\ started' = started + 1
    /\ UNCHANGED cap
    /\ UNCHANGED <<visitors, comments, tokens, reqs>>
    /\ LET auth == authenticateToken(headers) IN
       IF ~auth.next
       THEN last' = Rejected("getProfile", headers, auth)
       ELSE LET vid == findById(visitors, auth.user.visitorId) IN
            IF vid = 0
            THEN last' = Handled(headers, auth,
                                 Response("getProfile", 404, "Visitor not found"))
            ELSE last' = Handled(headers, auth,
                            [Response("getProfile", 200, "")
                                EXCEPT !.visitor = visitorSummary(vid, visitors[vid]),
                                       !.vid = vid])

----------------------------------------------------------------------------
\* POST /api/comments

\* const newCommentCount = visitor.commentCount + 1
newCommentCount(visitor) == visitor.commentCount + 1

\* new Comment({ ... }) from the visitor document read by findById.
newComment(r, id) ==
    [id |-> id, name |-> r.name, email |-> r.email, message |-> r.message, approved |-> TRUE,
     visitorId |-> r.vid, commentNumber |-> r.newCommentCount, createdAt |-> r.rid]

\* visitor.commentCount = newCommentCount; visitor.lastCommentAt = new Date();
\* visitor.save(): the update sets the two modified paths and no other.
visitorSave(vs, vid, n) ==
    [vs EXCEPT ![vid].commentCount = n, ![vid].lastCommentAt = TRUE]

\* Arrival, authenticateToken, validation and Visitor.findById.
PostComment(headers, message) ==
    /\ started < cap
    /\ started' = started + 1
    /\ UNCHANGED cap
    /\ UNCHANGED <<visitors, comments, tokens>>
    /\ LET auth == authenticateToken(headers) IN
       IF ~auth.next
       THEN /\ last' = Rejected("postComment", headers, auth)
            /\ UNCHANGED reqs
       ELSE IF message = ""
       THEN /\ last' = Handled(headers, auth,
                               Response("postComment", 400, "Message is required"))
            /\ UNCHANGED reqs
       ELSE LET vid == findById(visitors, auth.user.visitorId) IN
            IF vid = 0
            THEN /\ last' = Handled(headers, auth,
                                    Response("postComment", 404, "Visitor not found"))
                 /\ UNCHANGED reqs
            ELSE /\ Room
                 /\ reqs' = Append(reqs,
                                [Request EXCEPT !.op = "postComment", !.pc = "saveComment",
                                             !.rid = started + 1, !.vid = vid,
                                             !.name = visitors[vid].name,
                                             !.email = visitors[vid].email,
                                             !.message = message,
                                             !.newCommentCount =
                                                 newCommentCount(visitors[vid]),
                                             !.auth = AuthKind(headers),
                                             !.pre = IF auth.status # 0 THEN 1 ELSE 0])
                 /\ UNCHANGED last

\* comment.save()
PostCommentSave(s) ==
    /\ reqs[s].op = "postComment"
    /\ reqs[s].pc = "saveComment"
    /\ comments' = Append(comments, newComment(reqs[s], Len(comments) + 1))
    /\ reqs' = [reqs EXCEPT ![s].pc = "saveVisitor", ![s].cid = Len(comments) + 1]
    /\ UNCHANGED <<visitors, tokens, started, last, cap>>

\* visitor.save() and the 201 response.
PostCommentVisitorSave(s) ==
    /\ reqs[s].op = "postComment"
    /\ reqs[s].pc = "saveVisitor"
    /\ LET r == reqs[s] IN
       /\ visitors' = visitorSave(visitors, r.vid, r.newCommentCount)
       /\ last' = [Response("postComment", 201, "Comment submitted successfully")
                      EXCEPT !.auth = r.auth, !.sent = 1 + r.pre,
                             !.commentNumber = r.newCommentCount,
                             !.id = r.cid, !.vid = r.vid]
    /\ reqs' = Remove(reqs, s)
    /\ UNCHANGED <<comments, tokens, started, cap>>

----------------------------------------------------------------------------
\* GET /api/comments, GET /api/comments/my-comments

IsApproved(c) == c.approved

\* find({ approved: true }).sort({ createdAt: -1 }).limit(20)
\*     .select('name message commentNumber createdAt')
publicList(cs) ==
    LET found == Limit(SortByCreatedAtDesc(SelectSeq(cs, IsApproved)), PageSize)
    IN  [i \in 1..Len(found) |->
            [id |-> found[i].id, name |-> found[i].name, message |-> found[i].message,
             commentNumber |-> found[i].commentNumber, createdAt |-> found[i].createdAt]]

\* find({ visitorId }).sort({ createdAt: -1 })
\*     .select('name message commentNumber createdAt approved')
myList(cs, vid) ==
    LET Mine(c) == c.visitorId = vid
        found == SortByCreatedAtDesc(SelectSeq(cs, Mine))
    IN  [i \in 1..Len(found) |->
            [id |-> found[i].id, name |-> found[i].name, message |-> found[i].message,
             commentNumber |-> found[i].commentNumber, createdAt |-> found[i].createdAt,
             approved |-> found[i].approved]]

GetComments ==
    /\ started < cap
    /\ started' = started + 1
    /\ UNCHANGED cap
    /\ UNCHANGED <<visitors, comments, tokens, reqs>>
    /\ last' = [Response("getComments", 200, "")
                   EXCEPT !.comments = publicList(comments)]

MyComments(headers) ==
    /\ started < cap
    /\ started' = started + 1
    /\ UNCHANGED cap
    /\ UNCHANGED <<visitors, comments, tokens, reqs>>
    /\ LET auth == authenticateToken(headers) IN
       IF ~auth.next
       THEN last' = Rejected("myComments", headers, auth)
       ELSE last' = Handled(headers, auth,
                       [Response("myComments", 200, "")
                           EXCEPT !.comments = myList(comments, auth.user.visitorId),
                                  !.vid = auth.user.visitorId])

----------------------------------------------------------------------------
\* GET /api/comments/admin and PUT /api/comments/:id/approve

\* find().sort({ createdAt: -1 }).populate('visitorId', 'name email commentCount isAdmin')
adminList(cs, vs) ==
    LET found == SortByCreatedAtDesc(cs)
    IN  [i \in 1..Len(found) |->
            [found[i] EXCEPT !.visitorId =
                IF findById(vs, found[i].visitorId) = 0 THEN NoVisitor
                ELSE visitorSummary(found[i].visitorId, vs[found[i].visitorId])]]

\* Comment.findByIdAndUpdate(id, { approved: true }, { new: true }): a cast
\* error for an id that is no ObjectId, null when no comment has the id.
findByIdAndUpdateApproved(cs, id) ==
    IF id = MalformedId THEN [err |-> TRUE, found |-> FALSE, cs |-> cs]
    ELSE IF id \notin 1..Len(cs) THEN [err |-> FALSE, found |-> FALSE, cs |-> cs]
    ELSE [err |-> FALSE, found |-> TRUE, cs |-> [cs EXCEPT ![id].approved = TRUE]]

\* The isAdmin flag stored for the visitor a header's token names.
StoredAdmin(headers) ==
    /\ hasToken(headers)
    /\ headers[2].visitorId \in 1..Len(visitors)
    /\ visitors[headers[2].visitorId].isAdmin

\* A verified token claims isAdmin.
ClaimsAdmin(headers) ==
    hasToken(headers) /\ headers[2].ok /\ headers[2].isAdmin

\* Arrival and authenticateAdmin of an admin route; the handler's store call
\* is the next step.
AdminArrive(op, headers, id) ==
    /\ started < cap
    /\ started' = started + 1
    /\ UNCHANGED cap
    /\ UNCHANGED <<visitors, comments, tokens>>
    /\ LET auth == authenticateAdmin(headers, visitors) IN
       IF ~auth.next
       THEN /\ last' = [Rejected(op, headers, auth)
                           EXCEPT !.id = id,
                                  !.claimAdmin = ClaimsAdmin(headers),
                                  !.adminAtCheck = StoredAdmin(headers)]
            /\ UNCHANGED reqs
       ELSE /\ Room
            /\ reqs' = Append(reqs,
                           [Request EXCEPT !.op = op, !.pc = "handler",
                                        !.id = id, !.auth = AuthKind(headers),
                                        !.pre = IF auth.status # 0 THEN 1 ELSE 0,
                                        !.claimAdmin = ClaimsAdmin(headers),
                                        !.adminAtCheck = StoredAdmin(headers)])
            /\ UNCHANGED last

AdminComments(headers) == AdminArrive("adminComments", headers, 0)

Approve(headers, id) == AdminArrive("approve", headers, id)

\* The response of an admin handler for the request in slot s.
AdminHandled(r, resp) ==
    [resp EXCEPT !.auth = r.auth, !.sent = resp.sent + r.pre, !.id = r.id,
                 !.claimAdmin = r.claimAdmin, !.adminAtCheck = r.adminAtCheck]

AdminCommentsFind(s) ==
    /\ reqs[s].op = "adminComments"
    /\ reqs[s].pc = "handler"
    /\ last' = AdminHandled(reqs[s],
                   [Response("adminComments", 200, "")
                       EXCEPT !.comments = adminList(comments, visitors)])
    /\ reqs' = Remove(reqs, s)
    /\ UNCHANGED <<visitors, comments, tokens, started, cap>>

ApproveUpdate(s) ==
    /\ reqs[s].op = "approve"
    /\ reqs[s].pc = "handler"
    /\ LET upd == findByIdAndUpdateApproved(comments, reqs[s].id) IN
       /\ comments' = upd.cs
       /\ last' = AdminHandled(reqs[s],
                      IF upd.err
                      THEN [Response("approve", 500, "Server error")
                               EXCEPT !.error = "Cast to ObjectId failed"]
                      ELSE IF ~upd.found
                      THEN Response("approve", 404, "Comment not found")
                      ELSE [Response("approve", 200, "Comment approved")
                               EXCEPT !.comments = <<upd.cs[reqs[s].id]>>])
    /\ reqs' = Remove(reqs, s)
    /\ UNCHANGED <<visitors, tokens, started, cap>>

----------------------------------------------------------------------------
\* The isAdmin flag has no route: it is set on the stored document by whoever
\* administers the database, at any time.
SetAdmin(vid, flag) ==
    /\ vid \in 1..Len(visitors)
    /\ visitors[vid].isAdmin # flag
    /\ visitors' = [visitors EXCEPT ![vid].isAdmin = flag]
    /\ UNCHANGED <<comments, tokens, reqs, started, last, cap>>

\* The ids a client may put in the path: every comment's, one that is
\* well-formed and names no comment, and a malformed one.
PathIds == (1..(Len(comments) + 1)) \cup {MalformedId}

Next ==
    \/ \E email \in Emails \cup {""}, name \in Names \cup {""} : Login(email, name)
    \/ \E s \in DOMAIN reqs : LoginSave(s)
    \/ \E h \in Headers, name \in Names \cup {""} : UpdateProfile(h, name)
    \/ \E h \in Headers : GetProfile(h)
    \/ \E h \in Headers, message \in Messages \cup {""} : PostComment(h, message)
    \/ \E s \in DOMAIN reqs : PostCommentSave(s)
    \/ \E s \in DOMAIN reqs : PostCommentVisitorSave(s)
    \/ GetComments
    \/ \E h \in Headers : MyComments(h)
    \/ \E h \in Headers : AdminComments(h)
    \/ \E s \in DOMAIN reqs : AdminCommentsFind(s)
    \/ \E h \in Headers, id \in PathIds : Approve(h, id)
    \/ \E s \in DOMAIN reqs : ApproveUpdate(s)
    \/ \E vid \in 1..Len(visitors), flag \in BOOLEAN : SetAdmin(vid, flag)

Spec == Init /\ [][Next]_vars

SpecLong == InitLong /\ [][Next]_vars

----------------------------------------------------------------------------
\* Vocabulary of the properties.

\* The comments of visitor v, in the order they were saved.
CommentsOf(v) == SelectSeq(comments, LAMBDA c : c.visitorId = v)

\* A submission of visitor v is between its findById and its response.
Submitting(v) == \E s \in DOMAIN reqs : reqs[s].op = "postComment" /\ reqs[s].vid = v

\* Responses sent so far; a step sends one iff it raises this by one.
Finished == started - Len(reqs)
Responds == Finished' = Finished + 1

VisitorIds == 1..Len(visitors)

Protected ==
    {"updateProfile", "getProfile", "postComment", "myComments", "adminComments",
     "approve"}
AdminOps == {"adminComments", "approve"}

----------------------------------------------------------------------------
\* C1. Whenever no submission of a visitor is in flight, the visitor's comments
\* carry the numbers 1..N in the order they were saved, N being how many the
\* visitor has submitted, and the stored commentCount is N.
C1_NumbersAreOneToN ==
    \A v \in VisitorIds :
        ~Submitting(v) =>
            LET cs == CommentsOf(v) IN
            /\ \A i \in 1..Len(cs) : cs[i].commentNumber = i
            /\ visitors[v].commentCount = Len(cs)

\* C2. In every state no two comments of one visitor carry the same
\* commentNumber, and each comment of a visitor carries one more than the
\* visitor's comment saved before it.
C2_NoSharedNumber ==
    \A v \in VisitorIds :
        LET cs == CommentsOf(v) IN
        /\ \A i, j \in 1..Len(cs) : i # j => cs[i].commentNumber # cs[j].commentNumber
        /\ \A i \in 1..(Len(cs) - 1) : cs[i + 1].commentNumber = cs[i].commentNumber + 1

\* C3. In every state each visitor's stored commentCount is the number of
\* comments in the store with that visitor's id.
C3_CountMatchesComments ==
    \A v \in VisitorIds : visitors[v].commentCount = Len(CommentsOf(v))

\* C4. No step lowers the commentCount stored for a visitor.
C4_CountNeverDecreases ==
    [][\A v \in VisitorIds : visitors'[v].commentCount >= visitors[v].commentCount]_vars

----------------------------------------------------------------------------
\* No two visitors share an email.
C5_UniqueEmails ==
    \A i, j \in VisitorIds : visitors[i].email = visitors[j].email => i = j

\* A step that adds to the visitors adds one document, with an email no
\* visitor had, commentCount 0 and isAdmin false, and changes no other.
C5_CreatesOne ==
    Len(visitors') # Len(visitors) =>
        /\ Len(visitors') = Len(visitors) + 1
        /\ SubSeq(visitors', 1, Len(visitors)) = visitors
        /\ findOne(visitors, visitors'[Len(visitors')].email) = 0
        /\ visitors'[Len(visitors')].commentCount = 0
        /\ ~visitors'[Len(visitors')].isAdmin

\* Once a login carrying an email and a name has been answered, exactly one
\* visitor has that email; a visitor the login created is reported under the
\* request's name and email with commentCount 0 and isAdmin false.
C5_AfterLogin ==
    (last.op = "login" /\ last.email # "" /\ last.name # "") =>
        /\ Cardinality({i \in VisitorIds : visitors[i].email = last.email}) = 1
        /\ (last.status = 200 /\ ~last.found) =>
               /\ last.visitor.commentCount = 0
               /\ ~last.visitor.isAdmin
               /\ last.visitor.email = last.email
               /\ last.visitor.name = last.name

\* C5. A login with a new email and a name creates exactly one visitor, with
\* commentCount 0 and isAdmin false, and under any interleaving of logins no
\* two visitors share an email: C5_UniqueEmails and C5_AfterLogin hold in
\* every state and C5_CreatesOne of every step.
C5_LoginCreatesOneVisitor ==
    /\ [](C5_UniqueEmails /\ C5_AfterLogin)
    /\ [][C5_CreatesOne]_vars

\* Two logins raced for a new email: one created the visitor, the other's save
\* was rejected.
C5_Witness ==
    /\ last.op = "login"
    /\ last.error = "E11000 duplicate key"
    /\ Len(visitors) = 1
    /\ visitors[1].email = last.email
    /\ visitors[1].commentCount = 0
    /\ ~visitors[1].isAdmin

\* C6. When two logins race to create the same new email, one visitor is
\* created and the login whose save the unique index rejected is answered 409.
C6_LoserGets409 ==
    (last.op = "login" /\ last.error = "E11000 duplicate key") =>
        /\ Cardinality({i \in VisitorIds : visitors[i].email = last.email}) = 1
        /\ last.status = 409

----------------------------------------------------------------------------
\* C7. After a login that found the email and carried a name, the visitor is
\* stored under that name, and the login's token and summary carry that name.
C7_LoginUpdatesName ==
    (last.op = "login" /\ last.status = 200 /\ last.found /\ last.name # "") =>
        /\ visitors[last.vid].name = last.name
        /\ last.token.name = last.name
        /\ last.visitor.name = last.name

\* C7 as amended. A login that finds the email changes no visitor, whatever
\* name it carries: the name, role and commentCount stay as stored, and the
\* token it issues and the summary it returns carry the stored name, role and
\* commentCount.
C7_LoginKeepsStoredName ==
    [][(Responds /\ last'.op = "login" /\ last'.found) =>
          /\ visitors' = visitors
          /\ last'.status = 200
          /\ visitors[last'.vid].email = last'.email
          /\ last'.token \in tokens'
          /\ last'.token.ok
          /\ last'.token.visitorId = last'.vid
          /\ last'.token.name = visitors[last'.vid].name
          /\ last'.token.isAdmin = visitors[last'.vid].isAdmin
          /\ last'.token.commentCount = visitors[last'.vid].commentCount
          /\ last'.visitor.name = visitors[last'.vid].name
          /\ last'.visitor.isAdmin = visitors[last'.vid].isAdmin
          /\ last'.visitor.commentCount = visitors[last'.vid].commentCount]_vars

\* A login found the visitor and carried a name other than the stored one.
C7_Witness ==
    /\ last.op = "login"
    /\ last.found
    /\ last.name # ""
    /\ visitors[last.vid].name # last.name
    /\ last.token.name = visitors[last.vid].name

----------------------------------------------------------------------------
\* Only a request whose token verified and whose visitor was stored as admin
\* when authenticateAdmin looked is in an admin handler or was answered by
\* one; a request with a verified token whose visitor was not stored as admin
\* was answered 403 by the middleware, once.
C8_HandlerOnlyForAdmin ==
    /\ \A s \in DOMAIN reqs :
           reqs[s].op \in AdminOps => reqs[s].auth = "valid" /\ reqs[s].adminAtCheck
    /\ (last.op \in AdminOps /\ last.ran) => last.auth = "valid" /\ last.adminAtCheck
    /\ (last.op \in AdminOps /\ last.auth = "valid" /\ ~last.adminAtCheck) =>
           last.status = 403 /\ ~last.ran /\ last.sent = 1

\* The step that answers an admin request whose visitor was not stored as
\* admin changes no comment and no visitor.
C8_RejectionChangesNothing ==
    (Responds /\ last'.op \in AdminOps /\ ~last'.adminAtCheck) =>
        comments' = comments /\ visitors' = visitors

\* C8. An admin route's handler runs only if the token verifies and the
\* visitor stored for it is admin at the time of the check, whatever role the
\* token claims; a verified non-admin caller is answered 403, never 404 or
\* success, and no comment is modified.
C8_AdminGate ==
    /\ []C8_HandlerOnlyForAdmin
    /\ [][C8_RejectionChangesNothing]_vars

\* An approval was refused to a verified token that claims admin for a visitor
\* no longer stored as admin.
C8_Witness ==
    /\ last.op = "approve"
    /\ last.auth = "valid"
    /\ last.claimAdmin
    /\ ~last.adminAtCheck
    /\ last.status = 403
    /\ ~last.ran

----------------------------------------------------------------------------
\* No request to a protected route is in a handler without a verified token
\* or after its middleware sent a response.
C9_NeverInFlight ==
    \A s \in DOMAIN reqs :
        reqs[s].op \in Protected => reqs[s].auth = "valid" /\ reqs[s].pre = 0

\* The step that answers a request to a protected route without a token
\* answers 401, one whose token fails verification 403, without entering the
\* handler, with one response, and changes nothing but the response.
C9_Rejects ==
    (Responds /\ last'.op \in Protected /\ last'.auth \in {"missing", "invalid"}) =>
        /\ last'.status = (IF last'.auth = "missing" THEN 401 ELSE 403)
        /\ ~last'.ran
        /\ last'.sent = 1
        /\ visitors' = visitors
        /\ comments' = comments
        /\ tokens' = tokens
        /\ reqs' = reqs

\* A request to a protected route is answered once.
C9_OneResponse == last.op \in Protected => last.sent = 1

\* C9. On every protected route a request with no bearer token is answered
\* 401 and one whose token fails verification 403; the handler never runs,
\* exactly one response is sent and the stores are unchanged.
C9_BadCredentialRejected ==
    /\ [](C9_NeverInFlight /\ C9_OneResponse)
    /\ [][C9_Rejects]_vars

\* A submission with an expired token of an existing visitor was answered 403.
C9_Witness ==
    /\ last.op = "postComment"
    /\ last.auth = "invalid"
    /\ last.status = 403
    /\ Len(visitors) > 0
    /\ tokens # {}

----------------------------------------------------------------------------
\* No step turns an approved comment unapproved, removes a comment or changes
\* one except in its approved flag; a step that approves changes no visitor
\* and issues no token; it answers 200 when the id names a comment, leaving
\* the comments as they were if that comment was approved already, and 404,
\* changing nothing, when the id names none.
C10_Step ==
    /\ Len(comments') >= Len(comments)
    /\ \A i \in 1..Len(comments) :
           /\ comments[i].approved => comments'[i].approved
           /\ comments'[i] = [comments[i] EXCEPT !.approved = comments'[i].approved]
    /\ (comments' # comments /\ Len(comments') = Len(comments)) =>
           (Responds /\ last'.op = "approve")
    /\ (Responds /\ last'.op = "approve" /\ last'.ran) =>
           /\ visitors' = visitors
           /\ tokens' = tokens
           /\ IF last'.id \in 1..Len(comments)
              THEN /\ last'.status = 200
                   /\ comments[last'.id].approved => comments' = comments
              ELSE /\ last'.status = 404
                   /\ comments' = comments

\* C10. Approval is one-way and idempotent, approving an id that resolves to
\* no comment is answered 404 and changes nothing, and approval is the only
\* operation that modifies an existing comment: C10_Step holds of every step.
C10_ApprovalOneWay == [][C10_Step]_vars

====
